---- MODULE Spec2Model ----
(***************************************************************************)
(* SPI slave command endpoint (spi_slave.c): the LED state store, the      *)
(* ASCII command parser, the interrupt-driven transfer/recovery handlers   *)
(* and the polling driver, as a state machine over the module's statics.   *)
(* Buffers are functions over 0..BUFFER_SIZE-1, as the C arrays are;       *)
(* bytes are their ASCII codes.                                            *)
(***************************************************************************)
EXTENDS Integers, Sequences, FiniteSets, TLC

VARIABLES ledStates, pins, rxBuffer, txBuffer, xfer, pc, overrun, last, seen

vars == <<ledStates, pins, rxBuffer, txBuffer, xfer, pc, overrun, last, seen>>

(* ------------------------------------------------------------------ *)
(* Program constants                                                   *)
(* ------------------------------------------------------------------ *)
BUFFER_SIZE == 32

NUM_LEDS == 4

(* ------------------------------------------------------------------ *)
(* Bounds of the model                                                 *)
(* ------------------------------------------------------------------ *)
\* how many of the stack images below stand for uninitialised locals
MaxStackImages == 3

\* how many of the frames of ExtraFrames (those beyond the documented
\* commands) the peer may send
MaxExtraFrames == 18

\* how many of the frames of PollFrameList the peer may send when the main
\* loop polls
MaxPollFrames == 5
\* uint8_t arguments of the LED API: 0 .. MaxIndex and 255, 0 .. MaxState and 255
MaxIndex == 5
MaxState == 2

(* ------------------------------------------------------------------ *)
(* Bytes and C strings                                                 *)
(* ------------------------------------------------------------------ *)
Idx == 0 .. (BUFFER_SIZE - 1)

\* ASCII code of the characters the protocol and the test frames use
Ord(c) ==
    CASE c = "\n" -> 10
      [] c = "0" -> 48  [] c = "1" -> 49  [] c = "2" -> 50
      [] c = ":" -> 58
      [] c = "A" -> 65  [] c = "B" -> 66  [] c = "D" -> 68  [] c = "E" -> 69
      [] c = "F" -> 70  [] c = "G" -> 71  [] c = "K" -> 75  [] c = "L" -> 76
      [] c = "O" -> 79  [] c = "R" -> 82  [] c = "S" -> 83  [] c = "T" -> 84
      [] c = "X" -> 88  [] c = "Y" -> 89
      [] c = "d" -> 100 [] c = "e" -> 101 [] c = "g" -> 103 [] c = "l" -> 108
      [] c = "t" -> 116
      [] c = "x" -> 120

\* a string literal, as the sequence of its bytes (without the terminator)
Lit(s) == [k \in 1 .. Len(s) |-> Ord(s[k])]

Zeros == [k \in Idx |-> 0]

\* memset(buf, 0, BUFFER_SIZE)
Memset0(buf) == [k \in Idx |-> 0]

\* strcpy(dst, "literal"): the literal's bytes and its terminator; the rest
\* of dst keeps what it held
StrcpyLit(dst, lit) ==
    [k \in Idx |-> IF k < Len(lit) THEN lit[k + 1]
                   ELSE IF k = Len(lit) THEN 0
                   ELSE dst[k]]

\* strlen over a BUFFER_SIZE array: the index of the first NUL, or
\* BUFFER_SIZE when the array holds none (the scan then leaves the array)
StrLen(buf) ==
    IF \E k \in Idx : buf[k] = 0
    THEN CHOOSE k \in Idx : buf[k] = 0 /\ \A j \in 0 .. (k - 1) : buf[j] # 0
    ELSE BUFFER_SIZE

\* strncpy(dst, src, n): the bytes of src up to its terminator, then NULs
\* up to n bytes; dst[n..] is left alone
StrncpyLen(dst, src, n, len) ==
    [k \in Idx |-> IF k >= n THEN dst[k]
                   ELSE IF k < len THEN src[k]
                   ELSE 0]

Strncpy(dst, src, n) == StrncpyLen(dst, src, n, StrLen(src))

\* strcpy(dst, src) with src an array: bytes up to and including the
\* terminator; without a terminator in src the copy runs past both arrays
\* (the part inside dst is what the model keeps, see Overruns)
StrcpyLen(dst, src, len) ==
    [k \in Idx |-> IF k < len THEN src[k]
                   ELSE IF k = len THEN 0
                   ELSE dst[k]]

Strcpy(dst, src) == StrcpyLen(dst, src, StrLen(src))

Overruns(src) == StrLen(src) = BUFFER_SIZE

\* strncmp(a, "literal", n) == 0, comparing from index k on: stops at the
\* first difference, at a NUL, or after n bytes
RECURSIVE StrncmpEq(_, _, _, _)
StrncmpEq(a, lit, n, k) ==
    IF k >= n THEN TRUE
    ELSE LET c == IF k < Len(lit) THEN lit[k + 1] ELSE 0
         IN  IF a[k] # c THEN FALSE
             ELSE IF c = 0 THEN TRUE
             ELSE StrncmpEq(a, lit, n, k + 1)

\* printf("%d") of a uint8_t
Dec(n) ==
    LET d(x) == <<48 + x>>
    IN  IF n < 10 THEN d(n)
        ELSE IF n < 100 THEN d(n \div 10) \o d(n % 10)
        ELSE d(n \div 100) \o d((n \div 10) % 10) \o d(n % 10)

\* snprintf(dst, size, ...) of an already formatted text: at most size-1
\* bytes of it, then the terminator
SnprintfLen(dst, text, n) ==
    [k \in Idx |-> IF k < n THEN text[k + 1]
                   ELSE IF k = n THEN 0
                   ELSE dst[k]]

Snprintf(dst, size, text) ==
    SnprintfLen(dst, text, IF Len(text) < size - 1 THEN Len(text) ELSE size - 1)

(* ------------------------------------------------------------------ *)
(* Protocol texts                                                      *)
(* ------------------------------------------------------------------ *)
OK == Lit(<<"O", "K", "\n">>)

ERR == Lit(<<"E", "R", "R", "\n">>)

RDY == Lit(<<"R", "D", "Y", "\n">>)

LED_PREFIX == Lit(<<"L", "E", "D", ":">>)

GET_PREFIX == Lit(<<"G", "E", "T", ":", "L", "E", "D">>)

STA_PREFIX == Lit(<<"S", "T", "A", ":">>)

(* ------------------------------------------------------------------ *)
(* LED control                                                         *)
(* ------------------------------------------------------------------ *)
Leds == 0 .. (NUM_LEDS - 1)

\* LED_SetState with the store into ledStates[] left out: only the pin moves
LED_SetState_PinOnly(st, index, state) ==
    IF index >= NUM_LEDS THEN st
    ELSE [leds |-> st.leds,
          pins |-> [st.pins EXCEPT ![index] = IF state # 0 THEN 1 ELSE 0]]

\* LED_SetState on the pair st = [leds, pins]: out-of-range index is a
\* no-op; any nonzero state is stored as 1 and drives the pin high
\* the state argument stored as it is given instead of as 0 or 1
LED_SetState_Raw(st, index, state) ==
    IF index >= NUM_LEDS THEN st
    ELSE [leds |-> [st.leds EXCEPT ![index] = state],
          pins |-> [st.pins EXCEPT ![index] = IF state # 0 THEN 1 ELSE 0]]

\* a nonzero state inverting the channel instead of switching it on
LED_SetState_Toggle(st, index, state) ==
    IF index >= NUM_LEDS \/ state = 0 THEN st
    ELSE [leds |-> [st.leds EXCEPT ![index] = 1 - st.leds[index]],
          pins |-> [st.pins EXCEPT ![index] = 1 - st.pins[index]]]

\* the index reduced modulo the number of channels instead of rejected
LED_SetState_Wrap(st, index, state) ==
    [leds |-> [st.leds EXCEPT ![index % NUM_LEDS] = IF state # 0 THEN 1 ELSE 0],
     pins |-> [st.pins EXCEPT ![index % NUM_LEDS] = IF state # 0 THEN 1 ELSE 0]]

LED_SetState(st, index, state) ==
    IF index >= NUM_LEDS THEN st
    ELSE [leds |-> [st.leds EXCEPT ![index] = IF state # 0 THEN 1 ELSE 0],
          pins |-> [st.pins EXCEPT ![index] = IF state # 0 THEN 1 ELSE 0]]

\* the loop of LED_SetAll stopping one channel short (i < 3)
RECURSIVE LED_SetAllFrom_Short(_, _, _)
LED_SetAllFrom_Short(st, state, i) ==
    IF i < NUM_LEDS - 1
    THEN LED_SetAllFrom_Short(
             [leds |-> [st.leds EXCEPT ![i] = IF state # 0 THEN 1 ELSE 0],
              pins |-> [st.pins EXCEPT ![i] = IF state # 0 THEN 1 ELSE 0]],
             state, i + 1)
    ELSE st

\* the loop of LED_SetAll from index i on
RECURSIVE LED_SetAllFrom(_, _, _)
LED_SetAllFrom(st, state, i) ==
    IF i < NUM_LEDS THEN LED_SetAllFrom(LED_SetState(st, i, state), state, i + 1)
    ELSE st

LED_SetAll(st, state) == LED_SetAllFrom(st, state, 0)

SPI_Slave_GetLED(leds, index) ==
    IF index >= NUM_LEDS THEN 0 ELSE leds[index]

(* ------------------------------------------------------------------ *)
(* Command parser                                                      *)
(* ------------------------------------------------------------------ *)
\* the copy loop bounded by BUFFER_SIZE instead of BUFFER_SIZE - 1
RECURSIVE TokenEnd_NoRoom(_, _)
TokenEnd_NoRoom(cmdRaw, i) ==
    IF i < BUFFER_SIZE /\ cmdRaw[i] # 10 /\ cmdRaw[i] # 0
    THEN TokenEnd_NoRoom(cmdRaw, i + 1)
    ELSE i

\* where the token copy of ProcessCommand stops: the first index holding
\* '\n' or NUL, at most BUFFER_SIZE - 1
RECURSIVE TokenEnd(_, _)
TokenEnd(cmdRaw, i) ==
    IF i < BUFFER_SIZE - 1 /\ cmdRaw[i] # 10 /\ cmdRaw[i] # 0
    THEN TokenEnd(cmdRaw, i + 1)
    ELSE i

\* the indices of cmdRaw the copy loop reads from index i on: the loop
\* tests i < BUFFER_SIZE - 1 before it reads cmdRaw[i]
RECURSIVE TokenReads(_, _)
TokenReads(cmdRaw, i) ==
    IF i < BUFFER_SIZE - 1
    THEN {i} \cup (IF cmdRaw[i] # 10 /\ cmdRaw[i] # 0
                  THEN TokenReads(cmdRaw, i + 1)
                  ELSE {})
    ELSE {}

\* the indices of cmd[] the copy writes: the token bytes and the terminator
TokenWrites(cmdRaw) == 0 .. TokenEnd(cmdRaw, 0)

\* the local cmd[] after the copy: the token, its terminator, and beyond
\* the terminator whatever the stack held (cmd is not initialised)
TokenTo(cmdRaw, stack, i) ==
    [k \in Idx |-> IF k < i THEN cmdRaw[k]
                   ELSE IF k = i THEN 0
                   ELSE stack[k]]

Token(cmdRaw, stack) == TokenTo(cmdRaw, stack, TokenEnd(cmdRaw, 0))

\* the status text with the channels in the order 3,2,1,0
StatusText_Reversed(leds) ==
    STA_PREFIX \o Dec(leds[3]) \o Dec(leds[2]) \o Dec(leds[1]) \o Dec(leds[0])
               \o Lit(<<"\n">>)

\* the text of the status response for the stored LED values
StatusText(leds) ==
    STA_PREFIX \o Dec(leds[0]) \o Dec(leds[1]) \o Dec(leds[2]) \o Dec(leds[3])
               \o Lit(<<"\n">>)

\* the grammar matching without the check of the value byte: every value
\* byte other than '1' counts as 0
Dispatch_NoValueCheck(cmd, response, st) ==
    LET color == cmd[4]
        state == cmd[5]
        stateVal == IF state = Ord("1") THEN 1 ELSE 0
        done(s) == [leds |-> s.leds, pins |-> s.pins,
                    response |-> StrcpyLit(response, OK)]
        same == [leds |-> st.leds, pins |-> st.pins, response |-> response]
    IN  IF StrncmpEq(cmd, LED_PREFIX, 4, 0)
        THEN CASE color = Ord("G") -> done(LED_SetState(st, 0, stateVal))
               [] color = Ord("O") -> done(LED_SetState(st, 1, stateVal))
               [] color = Ord("R") -> done(LED_SetState(st, 2, stateVal))
               [] color = Ord("B") -> done(LED_SetState(st, 3, stateVal))
               [] color = Ord("A") -> done(LED_SetAll(st, stateVal))
               [] OTHER -> same
        ELSE IF StrncmpEq(cmd, GET_PREFIX, 7, 0)
        THEN [leds |-> st.leds, pins |-> st.pins,
              response |-> Snprintf(response, BUFFER_SIZE, StatusText(st.leds))]
        ELSE same

\* the 'A' case without its strcpy(response, "OK\n")
Dispatch_NoOkForAll(cmd, response, st) ==
    LET color == cmd[4]
        state == cmd[5]
        stateVal == IF state = Ord("1") THEN 1 ELSE 0
        done(s) == [leds |-> s.leds, pins |-> s.pins,
                    response |-> StrcpyLit(response, OK)]
        same == [leds |-> st.leds, pins |-> st.pins, response |-> response]
    IN  IF StrncmpEq(cmd, LED_PREFIX, 4, 0)
        THEN IF state # Ord("0") /\ state # Ord("1") THEN same
             ELSE CASE color = Ord("G") -> done(LED_SetState(st, 0, stateVal))
                    [] color = Ord("O") -> done(LED_SetState(st, 1, stateVal))
                    [] color = Ord("R") -> done(LED_SetState(st, 2, stateVal))
                    [] color = Ord("B") -> done(LED_SetState(st, 3, stateVal))
                    [] color = Ord("A") ->
                          [leds |-> LED_SetAll(st, stateVal).leds,
                           pins |-> LED_SetAll(st, stateVal).pins,
                           response |-> response]
                    [] OTHER -> same
        ELSE IF StrncmpEq(cmd, GET_PREFIX, 7, 0)
        THEN [leds |-> st.leds, pins |-> st.pins,
              response |-> Snprintf(response, BUFFER_SIZE, StatusText(st.leds))]
        ELSE same

\* the whole token compared with the command, as strcmp would, instead of
\* its first 4 or 7 bytes
Dispatch_WholeToken(cmd, response, st) ==
    LET color == cmd[4]
        state == cmd[5]
        stateVal == IF state = Ord("1") THEN 1 ELSE 0
        done(s) == [leds |-> s.leds, pins |-> s.pins,
                    response |-> StrcpyLit(response, OK)]
        same == [leds |-> st.leds, pins |-> st.pins, response |-> response]
    IN  IF StrncmpEq(cmd, LED_PREFIX, 4, 0) /\ cmd[6] = 0
        THEN IF state # Ord("0") /\ state # Ord("1") THEN same
             ELSE CASE color = Ord("G") -> done(LED_SetState(st, 0, stateVal))
                    [] color = Ord("O") -> done(LED_SetState(st, 1, stateVal))
                    [] color = Ord("R") -> done(LED_SetState(st, 2, stateVal))
                    [] color = Ord("B") -> done(LED_SetState(st, 3, stateVal))
                    [] color = Ord("A") -> done(LED_SetAll(st, stateVal))
                    [] OTHER -> same
        ELSE IF StrncmpEq(cmd, GET_PREFIX, 7, 0) /\ cmd[7] = 0
        THEN [leds |-> st.leds, pins |-> st.pins,
              response |-> Snprintf(response, BUFFER_SIZE, StatusText(st.leds))]
        ELSE same

\* the grammar matching of ProcessCommand on the token cmd, on
\* st = [leds, pins]: st after the command and the response array after it
Dispatch(cmd, response, st) ==
    LET color == cmd[4]
        state == cmd[5]
        stateVal == IF state = Ord("1") THEN 1 ELSE 0
        done(s) == [leds |-> s.leds, pins |-> s.pins,
                    response |-> StrcpyLit(response, OK)]
        same == [leds |-> st.leds, pins |-> st.pins, response |-> response]
    IN  IF StrncmpEq(cmd, LED_PREFIX, 4, 0)
        THEN IF state # Ord("0") /\ state # Ord("1") THEN same
             ELSE CASE color = Ord("G") -> done(LED_SetState(st, 0, stateVal))
                    [] color = Ord("O") -> done(LED_SetState(st, 1, stateVal))
                    [] color = Ord("R") -> done(LED_SetState(st, 2, stateVal))
                    [] color = Ord("B") -> done(LED_SetState(st, 3, stateVal))
                    [] color = Ord("A") -> done(LED_SetAll(st, stateVal))
                    [] OTHER -> same
        ELSE IF StrncmpEq(cmd, GET_PREFIX, 7, 0)
        THEN [leds |-> st.leds, pins |-> st.pins,
              response |-> Snprintf(response, BUFFER_SIZE, StatusText(st.leds))]
        ELSE same

\* ProcessCommand(cmdRaw, response); stack is what the uninitialised cmd[]
\* holds on entry
ProcessCommand(cmdRaw, response, st, stack) ==
    Dispatch(Token(cmdRaw, stack), response, st)

(* ------------------------------------------------------------------ *)
(* Inputs: inbound frames, stack contents, HAL results                 *)
(* ------------------------------------------------------------------ *)
\* a text at the start of a frame, the rest of the frame filled with fill
Frame(text, fill) ==
    [k \in Idx |-> IF k < Len(text) THEN text[k + 1] ELSE fill]

\* a text followed by NULs, as memset + strcpy leave a buffer
Pad(text) == Frame(text, 0)

\* "LED:<c><v>\n"
SetFrame(c, v) == Pad(LED_PREFIX \o Lit(<<c, v, "\n">>))

GetFrame == Pad(GET_PREFIX \o Lit(<<"\n">>))

\* the documented commands (README, Command Protocol)
CommandFrames ==
    {SetFrame(c, v) : c \in {"G", "O", "R", "B", "A"}, v \in {"0", "1"}}
        \cup {GetFrame}

\* other frames a peer (or a disturbed line) can deliver
ExtraFrames ==
    << Zeros,
       Pad(Lit(<<"F", "O", "O", "\n">>)),
       Pad(Lit(<<"l", "e", "d", ":", "g", "1", "\n">>)),
       Pad(LED_PREFIX \o Lit(<<"X", "1", "\n">>)),
       Pad(LED_PREFIX \o Lit(<<"G", "2", "\n">>)),
       Pad(LED_PREFIX),
       Pad(LED_PREFIX \o Lit(<<"\n">>)),
       Pad(LED_PREFIX \o Lit(<<"G">>)),
       Pad(LED_PREFIX \o Lit(<<"G", "\n">>)),
       Frame(LED_PREFIX \o Lit(<<"R", "1">>), Ord("x")),
       Pad(GET_PREFIX \o Lit(<<"x", "\n">>)),
       [k \in Idx |-> IF k < 4 THEN 0 ELSE SetFrame("G", "1")[k - 4]],
       Frame(LED_PREFIX \o Lit(<<"\n", "B", "1", "\n">>), Ord("1")),
       Pad(Lit(<<"G", "E", "T", ":", "L", "E", "\n">>)),
       Pad(LED_PREFIX \o Lit(<<"g", "1", "\n">>)),
       Pad(Lit(<<"g", "e", "t", ":", "l", "e", "d", "\n">>)),
       Pad(Lit(<<"L", "e", "d", ":", "G", "1", "\n">>)),
       Pad(LED_PREFIX \o Lit(<<"B", "0", "X", "Y", "\n">>)),
       Frame(GET_PREFIX, Ord("Y")) >>

Frames ==
    CommandFrames \cup
    {ExtraFrames[j] : j \in {n \in 1 .. MaxExtraFrames : n <= Len(ExtraFrames)}}

\* the frames the peer sends in the runs where the main loop polls
PollFrameList ==
    << SetFrame("G", "1"),
       Pad(Lit(<<"F", "O", "O", "\n">>)),
       GetFrame,
       SetFrame("A", "0"),
       Pad(LED_PREFIX),
       Zeros,
       SetFrame("B", "1") >>

PollFrames ==
    {PollFrameList[j] : j \in {n \in 1 .. MaxPollFrames : n <= Len(PollFrameList)}}

\* what an uninitialised 32-byte local can hold: the stack as earlier calls
\* left it
StackContents ==
    << Zeros,
       Frame(<<>>, Ord("1")),
       Frame(OK \o <<0>>, Ord("0")),
       Frame(LED_PREFIX \o Lit(<<"G", "1">>), Ord("R")),
       Frame(RDY \o <<0>>, Ord("x")) >>

StackImages ==
    {StackContents[j] : j \in {n \in 1 .. MaxStackImages : n <= Len(StackContents)}}

\* the SPI instances a callback can be invoked for; hspi1 is the configured one
hspi1 == "SPI1"

Instances == {"SPI1", "SPI2"}

HAL_OK == "HAL_OK"

\* the results of a blocking transfer other than HAL_OK
HAL_Failed == {"HAL_ERROR", "HAL_BUSY", "HAL_TIMEOUT"}

\* levels of the chip-select pin read by SPI_Slave_Poll
GPIO_PIN_RESET == "RESET"

GPIO_PIN_SET == "SET"

(* ------------------------------------------------------------------ *)
(* State                                                               *)
(* ------------------------------------------------------------------ *)
\* no exchange armed on the SPI handle
NoXfer == [mode |-> "none", tx |-> "-", rx |-> "-", size |-> 0]

\* HAL_SPI_TransmitReceive_IT(&hspi1, txBuffer, rxBuffer, BUFFER_SIZE)
HAL_SPI_TransmitReceive_IT ==
    [mode |-> "IT", tx |-> "txBuffer", rx |-> "rxBuffer", size |-> BUFFER_SIZE]

\* the record of the operation that ran last and of its inputs
Did(op, inst, frame, status) ==
    [op |-> op, inst |-> inst, frame |-> frame, status |-> status]

Init ==
    /\ ledStates = [i \in Leds |-> 0]
    /\ pins = [i \in Leds |-> 0]
    /\ rxBuffer = Zeros
    /\ txBuffer = Zeros
    /\ xfer = NoXfer
    /\ pc = "boot"
    /\ overrun = FALSE
    /\ last = Did("none", "-", Zeros, "-")
    /\ seen = [fault |-> FALSE, malformed |-> FALSE, handled |-> FALSE]

(* ------------------------------------------------------------------ *)
(* Operations                                                          *)
(* ------------------------------------------------------------------ *)
SPI_Slave_Init ==
    /\ pc = "boot"
    /\ LET st == LED_SetAll([leds |-> ledStates, pins |-> pins], 0)
       IN  /\ ledStates' = st.leds
           /\ pins' = st.pins
    /\ rxBuffer' = Memset0(rxBuffer)
    /\ txBuffer' = StrcpyLit(Memset0(txBuffer), RDY)
    /\ xfer' = HAL_SPI_TransmitReceive_IT
    /\ pc' = "loop"
    /\ last' = Did("Init", hspi1, Zeros, "-")
    /\ UNCHANGED <<overrun, seen>>

\* a frame the command table of the README accepts: one of the documented
\* commands (without its newline) starts it
Recognized(frame) ==
    \E f \in CommandFrames :
        \A k \in 0 .. (StrLen(f) - 2) : frame[k] = f[k]

\* the completion callback once ProcessCommand has returned r: the LED
\* state it left, and its response copied into the cleared txBuffer
\* the response left out: txBuffer keeps the previous response
CpltResponse_Stale(r) ==
    /\ ledStates' = r.leds
    /\ pins' = r.pins
    /\ txBuffer' = txBuffer

CpltResponse(r) ==
    /\ ledStates' = r.leds
    /\ pins' = r.pins
    /\ txBuffer' = Strncpy(Memset0(txBuffer), r.response, BUFFER_SIZE - 1)

\* the completion callback returning without arming the next exchange
HAL_SPI_TxRxCpltCallback_NoRearm(inst, frame, stack) ==
    /\ pc = "loop"
    /\ inst = hspi1 => xfer.mode = "IT"
    /\ last' = Did("Cplt", inst, frame, HAL_OK)
    /\ IF inst = hspi1
       THEN /\ CpltResponse(ProcessCommand(frame, StrcpyLit(Zeros, ERR),
                                           [leds |-> ledStates, pins |-> pins], stack))
            /\ rxBuffer' = Memset0(frame)
            /\ xfer' = NoXfer
            /\ seen' = [seen EXCEPT !.handled = TRUE,
                                    !.malformed = @ \/ ~Recognized(frame)]
            /\ UNCHANGED <<pc, overrun>>
       ELSE UNCHANGED <<ledStates, pins, rxBuffer, txBuffer, xfer, pc, overrun, seen>>

\* The armed exchange completes with frame in rxBuffer and the HAL calls
\* HAL_SPI_TxRxCpltCallback(hspi); stack is what the uninitialised cmd[]
\* of ProcessCommand holds.
HAL_SPI_TxRxCpltCallback(inst, frame, stack) ==
    /\ pc = "loop"
    /\ inst = hspi1 => xfer.mode = "IT"
    /\ last' = Did("Cplt", inst, frame, HAL_OK)
    /\ IF inst = hspi1
       THEN /\ CpltResponse(ProcessCommand(frame, StrcpyLit(Zeros, ERR),
                                           [leds |-> ledStates, pins |-> pins], stack))
            /\ rxBuffer' = Memset0(frame)
            /\ xfer' = HAL_SPI_TransmitReceive_IT
            /\ seen' = [seen EXCEPT !.handled = TRUE,
                                    !.malformed = @ \/ ~Recognized(frame)]
            /\ UNCHANGED <<pc, overrun>>
       ELSE UNCHANGED <<ledStates, pins, rxBuffer, txBuffer, xfer, pc, overrun, seen>>

\* the error callback returning without arming the next exchange
HAL_SPI_ErrorCallback_NoRearm(inst) ==
    /\ pc = "loop"
    /\ inst = hspi1 => xfer.mode = "IT"
    /\ last' = Did("Error", inst, Zeros, "HAL_ERROR")
    /\ IF inst = hspi1
       THEN /\ rxBuffer' = Memset0(rxBuffer)
            /\ txBuffer' = StrcpyLit(Memset0(txBuffer), ERR)
            /\ xfer' = NoXfer
            /\ seen' = [seen EXCEPT !.handled = TRUE, !.fault = TRUE]
            /\ UNCHANGED <<ledStates, pins, pc, overrun>>
       ELSE UNCHANGED <<ledStates, pins, rxBuffer, txBuffer, xfer, pc, overrun, seen>>

\* the error callback writing "ERR\n" over txBuffer without clearing it first
HAL_SPI_ErrorCallback_NoClear(inst) ==
    /\ pc = "loop"
    /\ inst = hspi1 => xfer.mode = "IT"
    /\ last' = Did("Error", inst, Zeros, "HAL_ERROR")
    /\ IF inst = hspi1
       THEN /\ rxBuffer' = Memset0(rxBuffer)
            /\ txBuffer' = StrcpyLit(txBuffer, ERR)
            /\ xfer' = HAL_SPI_TransmitReceive_IT
            /\ seen' = [seen EXCEPT !.handled = TRUE, !.fault = TRUE]
            /\ UNCHANGED <<ledStates, pins, pc, overrun>>
       ELSE UNCHANGED <<ledStates, pins, rxBuffer, txBuffer, xfer, pc, overrun, seen>>

\* The armed exchange ends in a transport error and the HAL calls
\* HAL_SPI_ErrorCallback(hspi).
HAL_SPI_ErrorCallback(inst) ==
    /\ pc = "loop"
    /\ inst = hspi1 => xfer.mode = "IT"
    /\ last' = Did("Error", inst, Zeros, "HAL_ERROR")
    /\ IF inst = hspi1
       THEN /\ rxBuffer' = Memset0(rxBuffer)
            /\ txBuffer' = StrcpyLit(Memset0(txBuffer), ERR)
            /\ xfer' = HAL_SPI_TransmitReceive_IT
            /\ seen' = [seen EXCEPT !.handled = TRUE, !.fault = TRUE]
            /\ UNCHANGED <<ledStates, pins, pc, overrun>>
       ELSE UNCHANGED <<ledStates, pins, rxBuffer, txBuffer, xfer, pc, overrun, seen>>

\* SPI_Slave_Poll once ProcessCommand has returned r: the LED state it
\* left, and its response copied into the cleared txBuffer
PollResponse(r) ==
    /\ ledStates' = r.leds
    /\ pins' = r.pins
    /\ txBuffer' = Strcpy(Memset0(txBuffer), r.response)
    /\ overrun' = (overrun \/ Overruns(r.response))

\* what rxBuffer holds after a blocking transfer that did not end HAL_OK:
\* the first got bytes of the frame, over the zeroed buffer
Partial(frame, got) == [k \in Idx |-> IF k < got THEN frame[k] ELSE 0]

\* SPI_Slave_Poll with the chip select at level cs. The blocking
\* HAL_SPI_TransmitReceive ends with status, having received frame (the
\* first got bytes of it when it did not end HAL_OK). cmdStack and
\* respStack are what the uninitialised locals cmd[] and response[] hold.
\* The HAL is outside this module: its status is an input, whatever
\* transfer is pending on the handle.
SPI_Slave_Poll(cs, status, frame, got, cmdStack, respStack) ==
    /\ pc = "loop"
    /\ IF cs = GPIO_PIN_RESET
       THEN /\ last' = Did("Poll", hspi1, frame, status)
            /\ IF status = HAL_OK
               THEN /\ PollResponse(ProcessCommand(frame, respStack,
                                      [leds |-> ledStates, pins |-> pins], cmdStack))
                    /\ rxBuffer' = frame
                    /\ seen' = [seen EXCEPT !.handled = TRUE,
                                            !.malformed = @ \/ ~Recognized(frame)]
                    /\ UNCHANGED <<xfer, pc>>
               ELSE /\ rxBuffer' = Partial(frame, got)
                    /\ seen' = [seen EXCEPT !.handled = TRUE, !.fault = TRUE]
                    /\ UNCHANGED <<ledStates, pins, txBuffer, xfer, pc, overrun>>
       ELSE /\ last' = Did("PollIdle", hspi1, Zeros, "-")
            /\ UNCHANGED <<ledStates, pins, rxBuffer, txBuffer, xfer, pc, overrun, seen>>

(* ------------------------------------------------------------------ *)
(* Specifications                                                      *)
(* ------------------------------------------------------------------ *)
\* a completion interrupt, with the peer's frame drawn from frames
CompleteOf(frames) ==
    \/ \E frame \in frames, stack \in StackImages :
           HAL_SPI_TxRxCpltCallback(hspi1, frame, stack)
    \/ \E inst \in Instances \ {hspi1} :
           HAL_SPI_TxRxCpltCallback(inst, Zeros, Zeros)

Complete == CompleteOf(Frames)

Fault == \E inst \in Instances : HAL_SPI_ErrorCallback(inst)

\* interrupt-driven use: SPI_Slave_Init, then the main loop idles
Next == SPI_Slave_Init \/ Complete \/ Fault

Spec == Init /\ [][Next]_vars

CompletePoll == CompleteOf(PollFrames)

PollIdle == SPI_Slave_Poll(GPIO_PIN_SET, "-", Zeros, 0, Zeros, Zeros)

PollOk ==
    \E frame \in PollFrames, cmdStack \in StackImages, respStack \in StackImages :
        SPI_Slave_Poll(GPIO_PIN_RESET, HAL_OK, frame, BUFFER_SIZE, cmdStack, respStack)

PollFailed ==
    \E status \in HAL_Failed, frame \in PollFrames, got \in {0, 5} :
        SPI_Slave_Poll(GPIO_PIN_RESET, status, frame, got, Zeros, Zeros)

\* polling use: SPI_Slave_Init, then the main loop calls SPI_Slave_Poll
NextPoll ==
    SPI_Slave_Init \/ CompletePoll \/ Fault \/ PollIdle \/ PollOk \/ PollFailed

SpecPoll == Init /\ [][NextPoll]_vars

\* ---- the LED API called from the main loop ----

ApiIndexes == (0 .. MaxIndex) \cup {255}
ApiStates == (0 .. MaxState) \cup {255}

SPI_Slave_SetLED(index, state) ==
    /\ pc = "loop"
    /\ LET st == LED_SetState([leds |-> ledStates, pins |-> pins], index, state)
       IN  /\ ledStates' = st.leds
           /\ pins' = st.pins
    /\ last' = [op |-> "SetLED", index |-> index, state |-> state]
    /\ UNCHANGED <<rxBuffer, txBuffer, xfer, pc, overrun, seen>>

\* a call of SPI_Slave_GetLED; the value it returns is kept in last.ret
GetLED(index) ==
    /\ pc = "loop"
    /\ last' = [op |-> "GetLED", index |-> index,
                ret |-> SPI_Slave_GetLED(ledStates, index)]
    /\ UNCHANGED <<ledStates, pins, rxBuffer, txBuffer, xfer, pc, overrun, seen>>

SetLED == \E index \in ApiIndexes, state \in ApiStates : SPI_Slave_SetLED(index, state)

ReadLED == \E index \in ApiIndexes : GetLED(index)

\* interrupt-driven use with the main loop calling the LED API
NextAPI == SPI_Slave_Init \/ CompletePoll \/ Fault \/ SetLED \/ ReadLED

SpecAPI == Init /\ [][NextAPI]_vars

\* ---- the handlers statement by statement ----
\* pc is the position of the software: "loop" is the idle main loop, the
\* other values are positions inside SPI_Slave_Init and the two callbacks.
\* The peripheral ends an armed exchange by a completion or a fault, which
\* enters the callback; it can do so whenever an exchange is armed.

Init_Prepare ==
    /\ pc = "boot"
    /\ LET st == LED_SetAll([leds |-> ledStates, pins |-> pins], 0)
       IN  /\ ledStates' = st.leds
           /\ pins' = st.pins
    /\ rxBuffer' = Memset0(rxBuffer)
    /\ txBuffer' = StrcpyLit(Memset0(txBuffer), RDY)
    /\ pc' = "init_arm"
    /\ last' = Did("Init", hspi1, Zeros, "-")
    /\ UNCHANGED <<xfer, overrun, seen>>

Init_Arm ==
    /\ pc = "init_arm"
    /\ xfer' = HAL_SPI_TransmitReceive_IT
    /\ pc' = "loop"
    /\ UNCHANGED <<ledStates, pins, rxBuffer, txBuffer, overrun, last, seen>>

\* the armed exchange completes: the peripheral has stored the inbound frame
\* in rxBuffer and enters HAL_SPI_TxRxCpltCallback
Exchange_Done(frame) ==
    /\ xfer.mode = "IT"
    /\ rxBuffer' = frame
    /\ xfer' = NoXfer
    /\ pc' = "cplt"
    /\ last' = Did("Cplt", hspi1, frame, HAL_OK)
    /\ UNCHANGED <<ledStates, pins, txBuffer, overrun, seen>>

\* the response is loaded and the exchange armed in the same statement
Cplt_Respond_ArmFirst(stack) ==
    /\ pc = "cplt"
    /\ CpltResponse(ProcessCommand(rxBuffer, StrcpyLit(Zeros, ERR),
                                   [leds |-> ledStates, pins |-> pins], stack))
    /\ xfer' = HAL_SPI_TransmitReceive_IT
    /\ seen' = [seen EXCEPT !.handled = TRUE,
                            !.malformed = @ \/ ~Recognized(rxBuffer)]
    /\ pc' = "cplt_clear"
    /\ UNCHANGED <<rxBuffer, overrun, last>>

\* response seeded, ProcessCommand, memset and strncpy into txBuffer
Cplt_Respond(stack) ==
    /\ pc = "cplt"
    /\ CpltResponse(ProcessCommand(rxBuffer, StrcpyLit(Zeros, ERR),
                                   [leds |-> ledStates, pins |-> pins], stack))
    /\ seen' = [seen EXCEPT !.handled = TRUE,
                            !.malformed = @ \/ ~Recognized(rxBuffer)]
    /\ pc' = "cplt_clear"
    /\ UNCHANGED <<rxBuffer, xfer, overrun, last>>

Cplt_Clear ==
    /\ pc = "cplt_clear"
    /\ rxBuffer' = Memset0(rxBuffer)
    /\ pc' = "cplt_arm"
    /\ UNCHANGED <<ledStates, pins, txBuffer, xfer, overrun, last, seen>>

Cplt_Arm ==
    /\ pc = "cplt_arm"
    /\ xfer' = HAL_SPI_TransmitReceive_IT
    /\ pc' = "loop"
    /\ UNCHANGED <<ledStates, pins, rxBuffer, txBuffer, overrun, last, seen>>

\* the armed exchange fails after got bytes of frame: the peripheral enters
\* HAL_SPI_ErrorCallback
Exchange_Failed(frame, got) ==
    /\ xfer.mode = "IT"
    /\ rxBuffer' = Partial(frame, got)
    /\ xfer' = NoXfer
    /\ pc' = "err"
    /\ last' = Did("Error", hspi1, Zeros, "HAL_ERROR")
    /\ UNCHANGED <<ledStates, pins, txBuffer, overrun, seen>>

Err_Reset ==
    /\ pc = "err"
    /\ rxBuffer' = Memset0(rxBuffer)
    /\ txBuffer' = StrcpyLit(Memset0(txBuffer), ERR)
    /\ seen' = [seen EXCEPT !.handled = TRUE, !.fault = TRUE]
    /\ pc' = "err_arm"
    /\ UNCHANGED <<ledStates, pins, xfer, overrun, last>>

Err_Arm ==
    /\ pc = "err_arm"
    /\ xfer' = HAL_SPI_TransmitReceive_IT
    /\ pc' = "loop"
    /\ UNCHANGED <<ledStates, pins, rxBuffer, txBuffer, overrun, last, seen>>

Done == \E frame \in PollFrames : Exchange_Done(frame)

Respond == \E stack \in StackImages : Cplt_Respond(stack)

Failed == \E frame \in PollFrames, got \in {0, 5} : Exchange_Failed(frame, got)

\* events of another SPI instance reach the same two callbacks
OtherInstance ==
    \E inst \in Instances \ {hspi1} :
        \/ HAL_SPI_TxRxCpltCallback(inst, Zeros, Zeros)
        \/ HAL_SPI_ErrorCallback(inst)

\* interrupt-driven use, one statement group at a time
NextSteps ==
    \/ Init_Prepare \/ Init_Arm
    \/ Done \/ Respond \/ Cplt_Clear \/ Cplt_Arm
    \/ Failed \/ Err_Reset \/ Err_Arm
    \/ OtherInstance

SpecSteps == Init /\ [][NextSteps]_vars

(* ------------------------------------------------------------------ *)
(* Properties                                                          *)
(* ------------------------------------------------------------------ *)
\* the exchange the handlers are to leave armed
Armed32 ==
    xfer = [mode |-> "IT", tx |-> "txBuffer", rx |-> "rxBuffer", size |-> 32]

\* index of a channel symbol, value of a value character
ChannelIndex(c) ==
    CASE c = "G" -> 0 [] c = "O" -> 1 [] c = "R" -> 2 [] c = "B" -> 3

ValueOf(v) == IF v = "1" THEN 1 ELSE 0

\* the step is the completion callback of the configured instance on frame
CompletedWith(frame) == last' = Did("Cplt", hspi1, frame, HAL_OK)

\* C1: once SPI_Slave_Init has run, whenever a completion or error
\* callback has returned (every state of the main loop), a 32-byte
\* interrupt exchange on txBuffer/rxBuffer is armed.
C1_AlwaysArmed == pc = "loop" => Armed32

C1_Witness ==
    /\ last.op = "Error" /\ last.inst = hspi1
    /\ seen.malformed
    /\ Armed32

\* C2: a completion whose frame matches no documented command leaves the
\* four channel states as they were and makes the next outbound frame
\* exactly "ERR\n".
C2_MalformedGivesERR ==
    [][ (last'.op = "Cplt" /\ last'.inst = hspi1 /\ ~Recognized(last'.frame))
          => /\ ledStates' = ledStates
             /\ txBuffer' = Pad(Lit(<<"E", "R", "R", "\n">>)) ]_vars

C2_Witness ==
    /\ last = Did("Cplt", hspi1, Pad(Lit(<<"L", "E", "D", ":", "G", "2", "\n">>)), HAL_OK)
    /\ ledStates[0] = 1
    /\ txBuffer = Pad(Lit(<<"E", "R", "R", "\n">>))

\* C3: a completion with "LED:<c><v>\n", c in G,O,R,B and v in 0,1, makes
\* GetLED(index(c)) = v, leaves the other three channels unchanged and
\* makes the response "OK\n".
C3_SetChannel ==
    [][ \A c \in {"G", "O", "R", "B"}, v \in {"0", "1"} :
          CompletedWith(SetFrame(c, v))
            => /\ SPI_Slave_GetLED(ledStates', ChannelIndex(c)) = ValueOf(v)
               /\ \A j \in Leds \ {ChannelIndex(c)} : ledStates'[j] = ledStates[j]
               /\ txBuffer' = Pad(Lit(<<"O", "K", "\n">>)) ]_vars

C3_Witness ==
    /\ last = Did("Cplt", hspi1, SetFrame("R", "0"), HAL_OK)
    /\ ledStates = [i \in Leds |-> IF i = 2 THEN 0 ELSE 1]
    /\ txBuffer = Pad(Lit(<<"O", "K", "\n">>))

\* C4: a completion with "LED:A1\n" leaves all four channels 1, one with
\* "LED:A0\n" leaves all four 0; the response is "OK\n" in both cases.
C4_SetAll ==
    [][ \A v \in {"0", "1"} :
          CompletedWith(SetFrame("A", v))
            => /\ \A j \in Leds : ledStates'[j] = ValueOf(v)
               /\ txBuffer' = Pad(Lit(<<"O", "K", "\n">>)) ]_vars

C4_Witness ==
    /\ last = Did("Cplt", hspi1, SetFrame("A", "1"), HAL_OK)
    /\ \A j \in Leds : ledStates[j] = 1
    /\ txBuffer = Pad(Lit(<<"O", "K", "\n">>))

\* C5: a completion with "GET:LED\n" makes the response "STA:", then one
\* '0' or '1' per channel in the order 0,1,2,3, then "\n", and leaves the
\* channel states unchanged.
C5_Query ==
    [][ CompletedWith(GetFrame)
          => /\ ledStates' = ledStates
             /\ \E b \in [Leds -> {"0", "1"}] :
                  /\ \A j \in Leds : ValueOf(b[j]) = ledStates[j]
                  /\ txBuffer' = Pad(Lit(<<"S", "T", "A", ":", b[0], b[1], b[2], b[3], "\n">>))
       ]_vars

C5_Witness ==
    /\ last = Did("Cplt", hspi1, GetFrame, HAL_OK)
    /\ txBuffer = Pad(Lit(<<"S", "T", "A", ":", "1", "0", "1", "0", "\n">>))

\* C6: after any run of transport faults and malformed frames an exchange
\* is armed, so the peer's next exchange can complete, and a completion
\* carrying "LED:G1\n" sets channel 0 and makes the next outbound frame
\* "OK\n".
C6_NoLockup ==
    /\ [](( pc = "loop" /\ (seen.fault \/ seen.malformed)) => xfer.mode = "IT")
    /\ [][ ((seen.fault \/ seen.malformed) /\ CompletedWith(SetFrame("G", "1")))
             => /\ ledStates'[0] = 1
                /\ txBuffer' = Pad(Lit(<<"O", "K", "\n">>)) ]_vars

C6_Witness ==
    /\ seen.fault /\ seen.malformed
    /\ last = Did("Cplt", hspi1, SetFrame("G", "1"), HAL_OK)
    /\ ledStates[0] = 1
    /\ txBuffer = Pad(Lit(<<"O", "K", "\n">>))

\* C7: when the error callback of the configured instance returns,
\* rxBuffer is all zero, txBuffer is "ERR\n" followed by zeros whatever it
\* held before, an exchange is armed again and the channel states are as
\* before the fault.
C7_FaultResets ==
    [][ (last'.op = "Error" /\ last'.inst = hspi1)
          => /\ \A k \in Idx : rxBuffer'[k] = 0
             /\ txBuffer' = Pad(Lit(<<"E", "R", "R", "\n">>))
             /\ Armed32'
             /\ ledStates' = ledStates ]_vars

C7_Witness ==
    /\ last.op = "Error" /\ last.inst = hspi1
    /\ ledStates[1] = 1
    /\ txBuffer = Pad(Lit(<<"E", "R", "R", "\n">>))
    /\ Armed32

\* C8: a polled exchange gives what the interrupt-driven handlers give: one
\* that ends HAL_OK leaves the channel states and the outbound frame the
\* completion callback would leave for the same frame; one that fails leaves
\* the outbound frame "ERR\n" and rxBuffer zeroed, as the error callback would.
C8_PollSameContract ==
    [][ last'.op = "Poll"
          => IF last'.status = HAL_OK
             THEN \A stack \in StackImages :
                    LET r == ProcessCommand(last'.frame, StrcpyLit(Zeros, ERR),
                                            [leds |-> ledStates, pins |-> pins], stack)
                    IN  /\ ledStates' = r.leds
                        /\ txBuffer' = Strncpy(Zeros, r.response, BUFFER_SIZE - 1)
             ELSE /\ txBuffer' = Pad(ERR)
                  /\ rxBuffer' = Zeros ]_vars

\* C9: SPI_Slave_Poll never clears rxBuffer or starts a transfer while an
\* interrupt-armed exchange on the same buffers is pending.
C9_DriversExclusive == ~(last.op = "Poll" /\ xfer.mode = "IT")

\* C10: once the first completion or fault has been handled, txBuffer never
\* holds "RDY\n" again.
C10_RdyOnlyOnce == seen.handled => txBuffer # Pad(RDY)

\* a documented command (without its newline) starts the frame
StartsWith(frame, command) ==
    \A k \in 0 .. (StrLen(command) - 2) : frame[k] = command[k]

\* what the command table says a documented command does to the channel
\* states leds, and the response it gets
CommandEffect(command, leds) ==
    IF command = GetFrame
    THEN [leds |-> leds,
          tx |-> Pad(Lit(<<"S", "T", "A", ":">>)
                     \o [k \in 1 .. 4 |-> IF leds[k - 1] = 0 THEN 48 ELSE 49]
                     \o <<10>>)]
    ELSE LET v == IF command[5] = 49 THEN 1 ELSE 0
         IN  [leds |-> [j \in Leds |->
                          IF \/ command[4] = 65
                             \/ command[4] = 71 /\ j = 0
                             \/ command[4] = 79 /\ j = 1
                             \/ command[4] = 82 /\ j = 2
                             \/ command[4] = 66 /\ j = 3
                          THEN v ELSE leds[j]],
              tx |-> Pad(Lit(<<"O", "K", "\n">>))]

\* the 32-byte frame without newline and without NUL
FullFrame == Frame(LED_PREFIX \o Lit(<<"R", "1">>), Ord("x"))

\* C11: on every completed frame, also one without newline and NUL, the
\* token copy reads frame indices within 0..30 only and writes cmd[]
\* indices within 0..31 only (at most 31 bytes and one terminator), and the
\* outcome is the effect of the documented command that starts the frame,
\* or "ERR\n" with the channel states unchanged.
C11_BoundedToken ==
    [][ (last'.op = "Cplt" /\ last'.inst = hspi1)
          => /\ TokenReads(last'.frame, 0) \subseteq 0 .. 30
             /\ TokenWrites(last'.frame) \subseteq 0 .. 31
             /\ TokenEnd(last'.frame, 0) <= 31
             /\ \/ \E c \in CommandFrames :
                      /\ StartsWith(last'.frame, c)
                      /\ ledStates' = CommandEffect(c, ledStates).leds
                      /\ txBuffer' = CommandEffect(c, ledStates).tx
                \/ /\ ledStates' = ledStates
                   /\ txBuffer' = Pad(Lit(<<"E", "R", "R", "\n">>)) ]_vars

C11_Witness ==
    /\ last = Did("Cplt", hspi1, FullFrame, HAL_OK)
    /\ \A k \in Idx : last.frame[k] # 0 /\ last.frame[k] # 10
    /\ ledStates[2] = 1
    /\ txBuffer = Pad(Lit(<<"O", "K", "\n">>))

\* the outbound frames the protocol documents
DocumentedResponses ==
    {Pad(Lit(<<"O", "K", "\n">>)), Pad(Lit(<<"E", "R", "R", "\n">>)),
     Pad(Lit(<<"R", "D", "Y", "\n">>))}
    \cup {CommandEffect(GetFrame, l).tx : l \in [Leds -> {0, 1}]}

\* C12: whenever an exchange is armed, txBuffer holds "OK\n", "ERR\n",
\* "RDY\n" or "STA:" with four '0'/'1' characters and "\n", followed by zero
\* bytes only: its byte 31 is zero and its text is at most 31 bytes long.
C12_OutboundWellFormed ==
    xfer.mode # "none"
        => /\ txBuffer \in DocumentedResponses
           /\ txBuffer[BUFFER_SIZE - 1] = 0
           /\ StrLen(txBuffer) <= BUFFER_SIZE - 1

\* C13: SPI_Slave_SetLED with an index of 4..255 changes no channel state
\* whatever the state argument, and SPI_Slave_GetLED with such an index
\* returns 0; with an index below 4 SetLED changes channel[index] only and
\* GetLED returns channel[index]; GetLED changes nothing.
C13_IndexChecked ==
    [][ /\ last'.op = "SetLED"
          => /\ last'.index >= 4 => ledStates' = ledStates /\ pins' = pins
             /\ \A j \in Leds : j # last'.index => ledStates'[j] = ledStates[j]
             /\ UNCHANGED <<rxBuffer, txBuffer, xfer>>
        /\ last'.op = "GetLED"
          => /\ last'.ret = IF last'.index >= 4 THEN 0 ELSE ledStates[last'.index]
             /\ UNCHANGED <<ledStates, pins, rxBuffer, txBuffer, xfer>> ]_vars

C13_Witness ==
    /\ last = [op |-> "SetLED", index |-> 255, state |-> 1]
    /\ ledStates[0] = 1 /\ ledStates[3] = 0

\* the documented set commands
SetCommands == CommandFrames \ {GetFrame}

\* C14: a valid set command is idempotent: in the state its completion
\* leaves, processing the same frame once more gives the same channel states,
\* pins and response "OK\n", so a second completion of the same frame right
\* after the first changes nothing.
C14_Idempotent ==
    /\ [](\A c \in SetCommands :
            last = Did("Cplt", hspi1, c, HAL_OK)
              => \A stack \in StackImages :
                   LET r == ProcessCommand(c, StrcpyLit(Zeros, ERR),
                                           [leds |-> ledStates, pins |-> pins], stack)
                   IN  /\ r.leds = ledStates
                       /\ r.pins = pins
                       /\ Strncpy(Zeros, r.response, BUFFER_SIZE - 1) = txBuffer
                       /\ txBuffer = Pad(Lit(<<"O", "K", "\n">>)))
    /\ [][ (\E c \in SetCommands :
              /\ last = Did("Cplt", hspi1, c, HAL_OK)
              /\ last' = Did("Cplt", hspi1, c, HAL_OK))
            => UNCHANGED <<ledStates, pins, txBuffer, rxBuffer, xfer>> ]_vars

\* the state "LED:O1\n" leaves, after one completion and after two in a row
C14_Witness ==
    /\ last = Did("Cplt", hspi1, SetFrame("O", "1"), HAL_OK)
    /\ ledStates[1] = 1 /\ pins[1] = 1
    /\ txBuffer = Pad(Lit(<<"O", "K", "\n">>))
    /\ rxBuffer = Zeros

\* C15: command processing is a function of the channel states and the
\* inbound frame alone: a completion, and a polled exchange that ends HAL_OK,
\* leave the channel states and the outbound frame that processing the same
\* frame leaves for every other content of the token storage cmd[] and of the
\* response storage, whatever txBuffer and rxBuffer held before.
C15_Deterministic ==
    [][ /\ (last'.op = "Cplt" /\ last'.inst = hspi1)
          => \A stack \in StackImages :
               LET r == ProcessCommand(last'.frame, StrcpyLit(Zeros, ERR),
                                       [leds |-> ledStates, pins |-> pins], stack)
               IN  /\ ledStates' = r.leds
                   /\ txBuffer' = Strncpy(Zeros, r.response, BUFFER_SIZE - 1)
        /\ (last'.op = "Poll" /\ last'.status = HAL_OK)
          => \A cmdStack \in StackImages, respStack \in StackImages :
               LET r == ProcessCommand(last'.frame, respStack,
                                       [leds |-> ledStates, pins |-> pins], cmdStack)
               IN  /\ ledStates' = r.leds
                   /\ txBuffer' = Strcpy(Zeros, r.response) ]_vars

\* C16: each of the four stored channel values is 0 or 1 in every reachable
\* state, so SPI_Slave_GetLED returns 0 or 1 for every index, also right
\* after SPI_Slave_SetLED with any state argument: a nonzero state is stored
\* as 1.
C16_ChannelsBinary ==
    /\ \A j \in Leds : ledStates[j] \in {0, 1}
    /\ \A index \in ApiIndexes : SPI_Slave_GetLED(ledStates, index) \in {0, 1}
    /\ last.op = "GetLED" => last.ret \in {0, 1}
    /\ (last.op = "SetLED" /\ last.index < NUM_LEDS)
         => ledStates[last.index] = IF last.state = 0 THEN 0 ELSE 1

C16_Witness ==
    /\ last = [op |-> "SetLED", index |-> 2, state |-> 255]
    /\ ledStates[2] = 1
    /\ SPI_Slave_GetLED(ledStates, 2) = 1

\* frames that differ from a documented command in letter case only
CaseVariants ==
    {Pad(Lit(<<"l", "e", "d", ":", "g", "1", "\n">>)),
     Pad(Lit(<<"L", "E", "D", ":", "g", "1", "\n">>)),
     Pad(Lit(<<"L", "e", "d", ":", "G", "1", "\n">>)),
     Pad(Lit(<<"g", "e", "t", ":", "l", "e", "d", "\n">>))}

\* frames that carry more bytes between a documented command and the
\* terminator, or no terminator at all
LongerFrames ==
    {FullFrame,
     Pad(Lit(<<"L", "E", "D", ":", "B", "0", "X", "Y", "\n">>)),
     Pad(Lit(<<"G", "E", "T", ":", "L", "E", "D", "x", "\n">>))}

\* C17: matching looks at the start of the token only and is case-sensitive:
\* a frame that starts with "LED:", a symbol of G O R B A and '0' or '1' is
\* executed as that set command and one that starts with "GET:LED" as the
\* query, whatever bytes follow; a frame that differs from a command in
\* letter case in the prefix or the channel symbol gets "ERR\n" and changes
\* no channel.
C17_PrefixMatch ==
    [][ (last'.op = "Cplt" /\ last'.inst = hspi1)
          => /\ \A c \in CommandFrames :
                   StartsWith(last'.frame, c)
                     => /\ ledStates' = CommandEffect(c, ledStates).leds
                        /\ txBuffer' = CommandEffect(c, ledStates).tx
             /\ last'.frame \in CaseVariants
                  => /\ ledStates' = ledStates
                     /\ txBuffer' = Pad(Lit(<<"E", "R", "R", "\n">>)) ]_vars

C17_Witness ==
    /\ last = Did("Cplt", hspi1, Pad(Lit(<<"G", "E", "T", ":", "L", "E", "D", "x", "\n">>)), HAL_OK)
    /\ txBuffer = Pad(Lit(<<"S", "T", "A", ":", "0", "1", "0", "0", "\n">>))
    /\ seen.malformed
    /\ CaseVariants \cup LongerFrames \subseteq Frames

\* the response the protocol gives to an inbound frame, with the channel
\* states as they are once the frame is processed
ResponseTo(frame, leds) ==
    IF \E c \in CommandFrames : StartsWith(frame, c)
    THEN CommandEffect(CHOOSE c \in CommandFrames : StartsWith(frame, c), leds).tx
    ELSE Pad(Lit(<<"E", "R", "R", "\n">>))

\* C18: when exchange k+1 completes and the event before it was the
\* completion of exchange k (no fault between them), the outbound frame it
\* carried is the response to the inbound frame of exchange k, the status in
\* it being the channel states as exchange k left them; the inbound frame of
\* exchange k is gone from rxBuffer, and the outbound frame armed next is the
\* response to the inbound frame of exchange k+1 and to no earlier one.
C18_ResponseOrder ==
    [][ (last'.op = "Cplt" /\ last'.inst = hspi1)
          => /\ (last.op = "Cplt" /\ last.inst = hspi1)
                  => /\ txBuffer = ResponseTo(last.frame, ledStates)
                     /\ rxBuffer = Zeros
             /\ txBuffer' = ResponseTo(last'.frame, ledStates')
             /\ rxBuffer' = Zeros ]_vars

C18_Witness ==
    /\ last = Did("Cplt", hspi1, GetFrame, HAL_OK)
    /\ ledStates = [j \in Leds |-> IF j = 3 THEN 1 ELSE 0]
    /\ txBuffer = Pad(Lit(<<"S", "T", "A", ":", "0", "0", "0", "1", "\n">>))
    /\ rxBuffer = Zeros
    /\ ~seen.fault

\* C19: in every run of completions and faults, a handler that arms "ERR\n"
\* as the outbound frame of the next exchange has left the channel states and
\* pins as they were when the exchange it ends was started, and a completion
\* that executes a command never arms "ERR\n": the peer is never told ERR for
\* a command that was applied.
C19_ErrMeansUntouched ==
    [][ /\ txBuffer' = Pad(Lit(<<"E", "R", "R", "\n">>))
          => ledStates' = ledStates /\ pins' = pins
        /\ (/\ last'.op = "Cplt" /\ last'.inst = hspi1
            /\ \E c \in CommandFrames : StartsWith(last'.frame, c))
          => txBuffer' # Pad(Lit(<<"E", "R", "R", "\n">>)) ]_vars

\* a fault after a command was applied: "ERR\n" goes out for the faulted
\* exchange, the channel keeps the value of the earlier command
C19_Witness ==
    /\ last.op = "Error" /\ last.inst = hspi1
    /\ seen.malformed
    /\ ledStates[3] = 1 /\ pins[3] = 1
    /\ txBuffer = Pad(Lit(<<"E", "R", "R", "\n">>))

\* C20: in interrupt-only use the software writes txBuffer and rxBuffer
\* only inside SPI_Slave_Init and inside the two callbacks, before the
\* statement that arms the next exchange: no step of the software changes a
\* buffer while an exchange is armed, and a completion or fault is delivered
\* only while the software is in the main loop, so no handler starts while
\* another one runs.
C20_BufferOwnership ==
    [][ /\ (pc # "loop" /\ (txBuffer' # txBuffer \/ rxBuffer' # rxBuffer))
          => /\ xfer.mode = "none" /\ xfer'.mode = "none"
             /\ pc \in {"boot", "cplt", "cplt_clear", "err"}
        /\ txBuffer' # txBuffer => pc # "loop"
        /\ (xfer.mode = "IT" /\ xfer'.mode = "none") => pc = "loop"
        /\ (pc = "loop" /\ rxBuffer' # rxBuffer)
          => xfer.mode = "IT" /\ xfer'.mode = "none" ]_vars

\* inside the completion callback, response loaded, rxBuffer not yet cleared
C20_Witness ==
    /\ pc = "cplt_clear"
    /\ xfer.mode = "none"
    /\ rxBuffer = SetFrame("G", "1")
    /\ txBuffer = Pad(Lit(<<"O", "K", "\n">>))
    /\ seen.fault

====
